---- MODULE Spec2Model ----
(***************************************************************************)
(* Nim against a minimax AI (game.cpp).                                    *)
(*                                                                         *)
(* Four specifications over one set of variables:                          *)
(*   Spec      the turn loop of main(), one game from the boards read in;  *)
(*   FairSpec  Spec with the fairness the loop's scheduling gives;         *)
(*   SpecEval  one call of minimax() on a node with a fresh memo, stepped  *)
(*             at the granularity of its loop over the children;           *)
(*   SpecKey   key_of() applied to two (piles, player) pairs.              *)
(***************************************************************************)
EXTENDS Integers, Sequences, FiniteSets, TLC

VARIABLES
    \* main()
    piles,      \* vector<int> piles
    turn,       \* int turn: 1 = human, 2 = AI
    pc,         \* position in main's loop: "loop", "apply", "exit"
    mv,         \* pair<int,int> mv returned by best_ai_move (0-based pile, amount)
    out,        \* the last message main printed about a move or the winner
    S0,         \* history: total of the board as read in
    moves,      \* history: accepted moves so far
    lastMover,  \* history: player of the most recent accepted move, 0 = none yet
    \* one call of minimax()
    node,       \* the Node minimax was called on: [piles, player, score, children]
    epc,        \* position in minimax: "off", "enter", "loop", "done"
    j,          \* index of the next child in the loop (1-based)
    best,       \* local best
    memo,       \* unordered_map<string,int>& memo
    ret,        \* value minimax returned (0 before it returns)
    last,       \* the most recent completed call, if any: <<[piles, player, score, children]>>
    \* key_of()
    kin,        \* the two (piles, player) pairs given to key_of
    kout        \* the two keys returned (<<>> before the calls)

gameVars == <<piles, turn, pc, mv, out, S0, moves, lastMover>>
evalVars == <<node, epc, j, best, memo, ret, last>>
keyVars  == <<kin, kout>>
vars     == <<gameVars, evalVars, keyVars>>

(***************************************************************************)
(* Bounds.                                                                 *)
(***************************************************************************)
MaxPiles == 3       \* boards have 0..MaxPiles piles
MaxPile == 3        \* each pile holds 0..MaxPile objects
KeyMaxLen == 2      \* key_of is applied to sequences of 0..KeyMaxLen values

(***************************************************************************)
(* Program constants.                                                      *)
(***************************************************************************)
HUMAN == 1
AI == 2
INT_MIN == -2147483647 - 1
INT_MAX == 2147483647

Players == {HUMAN, AI}

RECURSIVE SeqsUpTo(_, _)
SeqsUpTo(S, k) ==
    IF k = 0 THEN {<<>>}
    ELSE LET shorter == SeqsUpTo(S, k - 1)
         IN  shorter \cup {Append(s, x) : s \in {t \in shorter : Len(t) = k - 1}, x \in S}

Boards == SeqsUpTo(0..MaxPile, MaxPiles)

max(a, b) == IF a < b THEN b ELSE a
min(a, b) == IF b < a THEN b ELSE a

(***************************************************************************)
(* struct Node and its constructor.                                        *)
(***************************************************************************)
Node(p, pl) == [piles |-> p, player |-> pl, score |-> 0, children |-> <<>>]

(***************************************************************************)
(* is_terminal: true iff no pile differs from 0.                           *)
(***************************************************************************)
is_terminal(p) == \A i \in 1..Len(p) : p[i] = 0

(***************************************************************************)
(* std::to_string(int): decimal digits, most significant first, with a     *)
(* leading '-' for negative values.                                        *)
(***************************************************************************)
Digits == <<"0", "1", "2", "3", "4", "5", "6", "7", "8", "9">>

RECURSIVE NatToString(_)
NatToString(v) ==
    IF v < 10 THEN Digits[v + 1]
    ELSE NatToString(v \div 10) \o Digits[(v % 10) + 1]

to_string(v) == IF v < 0 THEN "-" \o NatToString(-v) ELSE NatToString(v)

(***************************************************************************)
(* std::sort on a vector<int>: the ascending arrangement of its values.    *)
(***************************************************************************)
RECURSIVE Insert(_, _)
Insert(x, s) ==
    IF s = <<>> THEN <<x>>
    ELSE IF x <= Head(s) THEN <<x>> \o s
    ELSE <<Head(s)>> \o Insert(x, Tail(s))

RECURSIVE sort(_)
sort(s) == IF s = <<>> THEN <<>> ELSE Insert(Head(s), sort(Tail(s)))

(***************************************************************************)
(* key_of: the sorted values, each followed by ",", then "|P" and the      *)
(* player.                                                                 *)
(***************************************************************************)
RECURSIVE JoinValues(_, _)
JoinValues(s, i) ==
    IF i > Len(s) THEN ""
    ELSE to_string(s[i]) \o "," \o JoinValues(s, i + 1)

\* variant of key_of: the values are not separated
KeyNoSeparator(p, player) ==
    LET s == sort(p)
        RECURSIVE Glue(_)
        Glue(i) == IF i > Len(s) THEN "" ELSE to_string(s[i]) \o Glue(i + 1)
    IN  Glue(1) \o "|P" \o to_string(player)

\* variant of key_of: the player is left out
KeyNoPlayer(p, player) == JoinValues(sort(p), 1) \o "|P"

key_of(p, player) == JoinValues(sort(p), 1) \o "|P" \o to_string(player)

(***************************************************************************)
(* generate_children: for each pile i (ascending) that is not 0 and each   *)
(* take in 1..p[i] (ascending), a child with pile i reduced by take and    *)
(* the other player to move, appended to node->children.                   *)
(***************************************************************************)
\* variant of Opponent: the child keeps the player
OpponentSame(player) == player

Opponent(player) == IF player = 1 THEN 2 ELSE 1

TakesFrom(p, player, i) ==
    [take \in 1..p[i] |-> Node([p EXCEPT ![i] = @ - take], Opponent(player))]

RECURSIVE ChildrenFrom(_, _, _)
ChildrenFrom(p, player, i) ==
    IF i > Len(p) THEN <<>>
    ELSE (IF p[i] = 0 THEN <<>> ELSE TakesFrom(p, player, i))
         \o ChildrenFrom(p, player, i + 1)

generate_children(n) == n.children \o ChildrenFrom(n.piles, n.player, 1)

(***************************************************************************)
(* terminal_score: the score, from the AI's side, of an empty board.       *)
(***************************************************************************)
\* variant of terminal_score: the signs exchanged
TerminalScoreFlipped(player_to_move) == IF player_to_move = 2 THEN 1 ELSE -1

terminal_score(player_to_move) == IF player_to_move = 2 THEN -1 ELSE 1

(***************************************************************************)
(* The memo table: a function from keys to scores.                         *)
(***************************************************************************)
EmptyMemo == <<>>

MemoPut(m, K, v) == (K :> v) @@ m

(***************************************************************************)
(* minimax.  The call returns the score; it also leaves entries in memo    *)
(* and children in the node, so the operator yields all three.             *)
(*   Combine     one iteration of the loop: best = max/min(best, value)    *)
(*   FirstBest   the loop's starting value                                 *)
(*   ChildStep   the loop's body on the value r a child's call returned    *)
(*   ChildLoop   the loop over children jj.., from acc = [best, memo]; the  *)
(*               call on child jj returns (the binding of r) before the    *)
(*               next iteration starts, as in the code                     *)
(***************************************************************************)
\* variant of Combine: the human maximises too
CombineAlwaysMax(player, b, v) == max(b, v)

Combine(player, b, v) == IF player = 2 THEN max(b, v) ELSE min(b, v)

\* variant of FirstBest: the two sentinels exchanged
FirstBestSwapped(player) == IF player = 2 THEN INT_MAX ELSE INT_MIN

FirstBest(player) == IF player = 2 THEN INT_MIN ELSE INT_MAX

ChildStep(player, acc, r) ==
    [best |-> Combine(player, acc.best, r.score), memo |-> r.memo]

RECURSIVE minimax(_, _)
RECURSIVE ChildLoop(_, _, _, _)

ChildLoop(ch, player, jj, acc) ==
    IF jj > Len(ch) THEN acc
    ELSE CHOOSE result \in {ChildLoop(ch, player, jj + 1, ChildStep(player, acc, r)) :
                               r \in {minimax(ch[jj], acc.memo)}} : TRUE

minimax(n, m) ==
    IF is_terminal(n.piles)
    THEN [score |-> terminal_score(n.player), memo |-> m, children |-> n.children]
    ELSE LET K == key_of(n.piles, n.player)
         IN  IF K \in DOMAIN m
             THEN [score |-> m[K], memo |-> m, children |-> n.children]
             ELSE LET ch == generate_children(n)
                      r  == ChildLoop(ch, n.player, 1,
                                      [best |-> FirstBest(n.player), memo |-> m])
                  IN  [score |-> r.best,
                       memo |-> MemoPut(r.memo, K, r.best),
                       children |-> ch]

(***************************************************************************)
(* best_ai_move.                                                           *)
(*   MoveTo    lines 175-181: the first pile where the child differs from  *)
(*             the board, and by how much; bestMove is kept when none does *)
(*   BestLoop  lines 169-183                                               *)
(* Pile indices are 0-based as in the code; sequences are 1-based.         *)
(***************************************************************************)
RECURSIVE FirstDiff(_, _, _, _)
FirstDiff(c, p, i, bestMove) ==
    IF i >= Len(p) THEN bestMove
    ELSE IF c[i + 1] # p[i + 1] THEN <<i, p[i + 1] - c[i + 1]>>
    ELSE FirstDiff(c, p, i + 1, bestMove)

\* variant of MoveTo: a 1-based pile number
MoveToOneBased(c, p, bestMove) ==
    LET m == FirstDiff(c, p, 0, bestMove) IN <<m[1] + 1, m[2]>>

MoveTo(c, p, bestMove) == FirstDiff(c, p, 0, bestMove)

\* variant of BestLoop: >= for >, so the last best child wins
RECURSIVE BestLoopLastWins(_, _, _, _, _, _)
BestLoopLastWins(ch, jj, bestScore, bestMove, m, p) ==
    IF jj > Len(ch) THEN bestMove
    ELSE LET r == minimax(ch[jj], m)
         IN  IF r.score >= bestScore
             THEN BestLoopLastWins(ch, jj + 1, r.score, MoveTo(ch[jj].piles, p, bestMove), r.memo, p)
             ELSE BestLoopLastWins(ch, jj + 1, bestScore, bestMove, r.memo, p)

RECURSIVE BestLoop(_, _, _, _, _, _)
BestLoop(ch, jj, bestScore, bestMove, m, p) ==
    IF jj > Len(ch) THEN bestMove
    ELSE LET r == minimax(ch[jj], m)
         IN  IF r.score > bestScore
             THEN BestLoop(ch, jj + 1, r.score, MoveTo(ch[jj].piles, p, bestMove), r.memo, p)
             ELSE BestLoop(ch, jj + 1, bestScore, bestMove, r.memo, p)

best_ai_move(p) ==
    LET root == Node(p, 2)
        r0   == minimax(root, EmptyMemo)
        ch   == generate_children([root EXCEPT !.children = <<>>])
    IN  BestLoop(ch, 1, INT_MIN, <<-1, -1>>, r0.memo, p)

(***************************************************************************)
(* The moves best_ai_move returns, tabulated once for the non-terminal     *)
(* boards of Boards (the board of a game never leaves Boards).             *)
(***************************************************************************)
BestMoves == {<<p, best_ai_move(p)>> : p \in {b \in Boards : ~is_terminal(b)}}

(***************************************************************************)
(* Total: the number of objects on the board.                              *)
(***************************************************************************)
RECURSIVE SumFrom(_, _)
SumFrom(p, i) == IF i > Len(p) THEN 0 ELSE p[i] + SumFrom(p, i + 1)

Total(p) == SumFrom(p, 1)

(***************************************************************************)
(* The memo-free value of a state: the terminal score on an empty board,   *)
(* otherwise the maximum (AI to move) or minimum (HUMAN to move) of the    *)
(* memo-free values of all children.  A child has one object fewer at      *)
(* least, so the values are tabulated by increasing total; the table holds *)
(* <<piles, player, value>> for every board of Boards and either player.   *)
(***************************************************************************)
PlainScores == {-1, 1}

PlainLookup(T, p, pl) == CHOOSE v \in PlainScores : <<p, pl, v>> \in T

PlainChildren(p) ==
    UNION {{[p EXCEPT ![i] = @ - take] : take \in 1..p[i]} : i \in 1..Len(p)}

SetMax(S) == CHOOSE x \in S : \A y \in S : y <= x
SetMin(S) == CHOOSE x \in S : \A y \in S : x <= y

PlainValue(T, p, pl) ==
    IF \A i \in 1..Len(p) : p[i] = 0
    THEN (IF pl = AI THEN -1 ELSE 1)
    ELSE LET scores == {PlainLookup(T, c, IF pl = AI THEN HUMAN ELSE AI) : c \in PlainChildren(p)}
         IN  IF pl = AI THEN SetMax(scores) ELSE SetMin(scores)

RECURSIVE PlainUpTo(_)
PlainUpTo(s) ==
    IF s < 0 THEN {}
    ELSE LET T == PlainUpTo(s - 1)
         IN  T \cup {<<p, pl, PlainValue(T, p, pl)>> :
                        p \in {b \in Boards : Total(b) = s}, pl \in Players}

PlainTable == PlainUpTo(MaxPiles * MaxPile)

PlainMinimax(p, pl) == PlainLookup(PlainTable, p, pl)

(***************************************************************************)
(* Nim-sum: the bitwise XOR of the pile sizes.                             *)
(***************************************************************************)
RECURSIVE Xor(_, _)
Xor(a, b) ==
    IF a = 0 THEN b
    ELSE IF b = 0 THEN a
    ELSE (((a % 2) + (b % 2)) % 2) + 2 * Xor(a \div 2, b \div 2)

RECURSIVE NimSumFrom(_, _)
NimSumFrom(p, i) == IF i > Len(p) THEN 0 ELSE Xor(p[i], NimSumFrom(p, i + 1))

NimSum(p) == NimSumFrom(p, 1)

(***************************************************************************)
(* SpecEval: minimax(&n, memo) on a node n with a fresh memo, as line 160  *)
(* calls it, for either player to move.  The body of the call is stepped   *)
(* one child at a time; the calls on the children (lines 135, 141) run to  *)
(* completion inside one step.  The children are kept as generate_children *)
(* made them: what the recursion writes into a child's own score and       *)
(* children is never read back.                                            *)
(***************************************************************************)
GameOff ==
    /\ piles = <<>>
    /\ turn = HUMAN
    /\ pc = "off"
    /\ mv = <<-1, -1>>
    /\ out = "none"
    /\ S0 = 0
    /\ moves = 0
    /\ lastMover = 0

EvalOff ==
    /\ node = Node(<<>>, HUMAN)
    /\ epc = "off"
    /\ j = 0
    /\ best = 0
    /\ memo = EmptyMemo
    /\ ret = 0
    /\ last = <<>>

KeyOff ==
    /\ kin = <<>>
    /\ kout = <<>>

Called(n, r) ==
    <<[piles |-> n.piles, player |-> n.player, score |-> r.score, children |-> r.children]>>

EvalInit ==
    /\ GameOff
    /\ KeyOff
    /\ node \in {Node(p, pl) : p \in Boards, pl \in Players}
    /\ epc = "enter"
    /\ j = 0
    /\ best = 0
    /\ memo = EmptyMemo
    /\ ret = 0
    /\ last = <<>>

\* lines 118-129 and the loop's initialisation (133, 139)
Enter ==
    /\ epc = "enter"
    /\ IF is_terminal(node.piles)
       THEN /\ node' = [node EXCEPT !.score = terminal_score(node.player)]
            /\ ret' = terminal_score(node.player)
            /\ last' = Called(node, [score |-> terminal_score(node.player),
                                     children |-> node.children])
            /\ epc' = "done"
            /\ UNCHANGED <<j, best, memo>>
       ELSE IF key_of(node.piles, node.player) \in DOMAIN memo
       THEN /\ ret' = memo[key_of(node.piles, node.player)]
            /\ last' = Called(node, [score |-> memo[key_of(node.piles, node.player)],
                                     children |-> node.children])
            /\ epc' = "done"
            /\ UNCHANGED <<node, j, best, memo>>
       ELSE /\ node' = [node EXCEPT !.children = generate_children(node)]
            /\ best' = FirstBest(node.player)
            /\ j' = 1
            /\ epc' = "loop"
            /\ UNCHANGED <<memo, ret, last>>
    /\ UNCHANGED <<gameVars, keyVars>>

\* one iteration of the loop at lines 134-135 or 140-141
LoopStep ==
    /\ epc = "loop"
    /\ j <= Len(node.children)
    /\ LET r   == minimax(node.children[j], memo)
           acc == ChildStep(node.player, [best |-> best, memo |-> memo], r)
       IN  /\ best' = acc.best
           /\ memo' = acc.memo
           /\ last' = Called(node.children[j], r)
    /\ j' = j + 1
    /\ UNCHANGED <<node, epc, ret>>
    /\ UNCHANGED <<gameVars, keyVars>>

\* lines 136/142 and 146-147
Finish ==
    /\ epc = "loop"
    /\ j > Len(node.children)
    /\ node' = [node EXCEPT !.score = best]
    /\ memo' = MemoPut(memo, key_of(node.piles, node.player), best)
    /\ ret' = best
    /\ last' = Called(node, [score |-> best, children |-> node.children])
    /\ epc' = "done"
    /\ UNCHANGED <<j, best>>
    /\ UNCHANGED <<gameVars, keyVars>>

EvalNext == Enter \/ LoopStep \/ Finish

SpecEval == EvalInit /\ [][EvalNext]_vars


(***************************************************************************)
(* Spec: main().  The board and the first player are read in (lines        *)
(* 199-209); then the loop of lines 212-244.  out is the last message      *)
(* printed other than the board.                                           *)
(***************************************************************************)
Init ==
    /\ piles \in Boards
    /\ turn \in Players
    /\ pc = "loop"
    /\ mv = <<-1, -1>>
    /\ out = "Who goes first?"
    /\ S0 = Total(piles)
    /\ moves = 0
    /\ lastMover = 0
    /\ EvalOff
    /\ KeyOff

\* variant of Winner: the two names exchanged
WinnerSwapped(t) == IF t = 1 THEN "Winner is You" ELSE "Winner is AI"

\* line 218
Winner(t) == IF t = 1 THEN "Winner is AI" ELSE "Winner is You"

\* lines 216-220
GameOver ==
    /\ pc = "loop"
    /\ is_terminal(piles)
    /\ out' = Winner(turn)
    /\ pc' = "exit"
    /\ UNCHANGED <<piles, turn, mv, S0, moves, lastMover>>
    /\ UNCHANGED <<evalVars, keyVars>>

\* variant of Rejected: amt < 0 for amt <= 0
RejectsZeroOnly(pidx, amt) ==
    pidx < 0 \/ pidx >= Len(piles) \/ amt < 0 \/ amt > piles[pidx + 1]

\* line 228, on the 0-based pidx
Rejected(pidx, amt) ==
    pidx < 0 \/ pidx >= Len(piles) \/ amt <= 0 \/ amt > piles[pidx + 1]

\* lines 223-234: the human enters pile number pnum (1-based) and amount amt
HumanMove(pnum, amt) ==
    /\ pc = "loop"
    /\ ~is_terminal(piles)
    /\ turn = 1
    /\ IF Rejected(pnum - 1, amt)
       THEN /\ out' = "Invalid move. Try again."
            /\ UNCHANGED <<piles, turn, moves, lastMover>>
       ELSE /\ piles' = [piles EXCEPT ![pnum] = @ - amt]
            /\ turn' = 2
            /\ out' = "Your move"
            /\ moves' = moves + 1
            /\ lastMover' = HUMAN
    /\ UNCHANGED <<pc, mv, S0>>
    /\ UNCHANGED <<evalVars, keyVars>>

\* lines 236-240
AiThink ==
    /\ pc = "loop"
    /\ ~is_terminal(piles)
    /\ turn # 1
    /\ \E pm \in BestMoves : pm[1] = piles /\ mv' = pm[2]
    /\ out' = "AI removes"
    /\ pc' = "apply"
    /\ UNCHANGED <<piles, turn, S0, moves, lastMover>>
    /\ UNCHANGED <<evalVars, keyVars>>

\* lines 241-242
AiApply ==
    /\ pc = "apply"
    /\ piles' = [piles EXCEPT ![mv[1] + 1] = @ - mv[2]]
    /\ turn' = 1
    /\ moves' = moves + 1
    /\ lastMover' = AI
    /\ pc' = "loop"
    /\ UNCHANGED <<mv, out, S0>>
    /\ UNCHANGED <<evalVars, keyVars>>

Human == \E pnum \in 0..(MaxPiles + 1), amt \in -1..(MaxPile + 1) : HumanMove(pnum, amt)

HumanAccepted == Human /\ moves' = moves + 1

Next == GameOver \/ Human \/ AiThink \/ AiApply

Spec == Init /\ [][Next]_vars

(***************************************************************************)
(* FairSpec: the program keeps running (the loop's own steps are taken     *)
(* when they can be), and the human eventually enters a valid move when it *)
(* is their turn.                                                          *)
(***************************************************************************)
FairSpec ==
    /\ Spec
    /\ WF_vars(GameOver)
    /\ WF_vars(AiThink)
    /\ WF_vars(AiApply)
    /\ WF_vars(HumanAccepted)

(***************************************************************************)
(* SpecKey: key_of on two (piles, player) pairs.  The values include 12,   *)
(* whose digits are those of 1 and 2.                                      *)
(***************************************************************************)
KeyVals == {0, 1, 2, 12}

KeySeqs == SeqsUpTo(KeyVals, KeyMaxLen)

KeyInit ==
    /\ GameOff
    /\ EvalOff
    /\ kin \in {[p |-> p, a |-> a, q |-> q, b |-> b] :
                    p \in KeySeqs, a \in Players, q \in KeySeqs, b \in Players}
    /\ kout = <<>>

KeyCall ==
    /\ kout = <<>>
    /\ kout' = <<key_of(kin.p, kin.a), key_of(kin.q, kin.b)>>
    /\ UNCHANGED <<kin, gameVars, evalVars>>

KeyNext == KeyCall

SpecKey == KeyInit /\ [][KeyNext]_vars

(***************************************************************************)
(* Consistency of the model: the stepped call of SpecEval returns what the *)
(* operator minimax returns, and the tabulated move is best_ai_move's.     *)
(***************************************************************************)
StepAgrees ==
    epc = "done" =>
        LET r == minimax(Node(node.piles, node.player), EmptyMemo)
        IN  ret = r.score /\ memo = r.memo /\ node.children = r.children

TableAgrees == pc = "apply" => mv = best_ai_move(piles)

(***************************************************************************)
(*                              PROPERTIES                                 *)
(***************************************************************************)

Count(s, v) == Cardinality({i \in 1..Len(s) : s[i] = v})

IsPermutation(p, q) ==
    /\ Len(p) = Len(q)
    /\ \A i \in 1..Len(p) : Count(p, p[i]) = Count(q, p[i])

NonNegative(p) == \A i \in 1..Len(p) : p[i] >= 0

\* the board after move m = <<0-based pile, amount>>
After(p, m) == [p EXCEPT ![m[1] + 1] = @ - m[2]]

LegalMoves(p) == UNION {{<<i - 1, take>> : take \in 1..p[i]} : i \in 1..Len(p)}

\* the legal moves whose child has the maximum memo-free score, and the
\* first of them in (pile, take) order
BestLegalMoves(p) ==
    LET top == SetMax({PlainMinimax(After(p, m), HUMAN) : m \in LegalMoves(p)})
    IN  {m \in LegalMoves(p) : PlainMinimax(After(p, m), HUMAN) = top}

FirstMove(M) ==
    CHOOSE m \in M : \A o \in M : m[1] < o[1] \/ (m[1] = o[1] /\ m[2] <= o[2])

Announced == out \in {"Winner is AI", "Winner is You"}

Returned == epc = "done"

\* C1 as claimed: for either player to move, minimax with a fresh memo
\* returns -1 iff the nim-sum is 0 and +1 otherwise.
C1_AsClaimed ==
    Returned => ret = (IF NimSum(node.piles) = 0 THEN -1 ELSE 1)

\* C1 amended: minimax with a fresh memo scores from the AI's side: with
\* AI to move it returns -1 iff the nim-sum is 0 and +1 otherwise; with HUMAN
\* to move it returns +1 iff the nim-sum is 0 and -1 otherwise.
C1_NimSumOracle ==
    Returned =>
        IF node.player = AI
        THEN ret = (IF NimSum(node.piles) = 0 THEN -1 ELSE 1)
        ELSE ret = (IF NimSum(node.piles) = 0 THEN 1 ELSE -1)

C1_Witness ==
    /\ Returned
    /\ node.player = HUMAN
    /\ Len(node.piles) = 3
    /\ \A i \in 1..3 : node.piles[i] > 0
    /\ NimSum(node.piles) = 0
    /\ ret = 1

\* C2: on a board with a non-zero pile best_ai_move returns (pile_index,
\* amount_removed) with 0 <= pile_index < number of piles and
\* 1 <= amount_removed <= piles[pile_index], never (-1,-1).
C2_LegalMove ==
    pc = "apply" =>
        /\ mv # <<-1, -1>>
        /\ mv[1] \in 0..(Len(piles) - 1)
        /\ mv[2] \in 1..piles[mv[1] + 1]

C2_Witness ==
    /\ pc = "apply"
    /\ Len(piles) = 3
    /\ mv[1] = 2
    /\ mv[2] >= 2
    /\ mv[2] < piles[3]

\* C3: on a board whose nim-sum is not 0, the move best_ai_move returns
\* leaves a board whose nim-sum is 0.
C3_WinningMove ==
    (pc = "apply" /\ NimSum(piles) # 0) => NimSum(After(piles, mv)) = 0

C3_Witness ==
    /\ pc = "apply"
    /\ Len(piles) = 3
    /\ \A i \in 1..3 : piles[i] > 0
    /\ NimSum(piles) # 0
    /\ mv[2] < piles[mv[1] + 1]
    /\ NimSum(After(piles, mv)) = 0

\* C4: a call of minimax on a terminal state (every pile 0, or no pile)
\* returns -1 with AI to move and +1 with HUMAN to move and generates no
\* children, whatever the memo holds.
C4_TerminalScore ==
    (last # <<>> /\ is_terminal(last[1].piles)) =>
        /\ last[1].score = (IF last[1].player = AI THEN -1 ELSE 1)
        /\ last[1].children = <<>>

C4_Witness ==
    /\ last # <<>>
    /\ is_terminal(last[1].piles)
    /\ Len(last[1].piles) >= 2
    /\ last[1].player = AI
    /\ last[1].score = -1
    /\ memo # EmptyMemo

\* C5: key_of(p, a) = key_of(q, b) iff q is a permutation of p and a = b.
C5_CanonicalKey ==
    kout # <<>> =>
        ((kout[1] = kout[2]) <=> (IsPermutation(kin.p, kin.q) /\ kin.a = kin.b))

C5_Witness ==
    /\ kout # <<>>
    /\ kin.p # kin.q
    /\ IsPermutation(kin.p, kin.q)
    /\ kin.a = kin.b
    /\ kout[1] = kout[2]

\* C6 as claimed: whenever game over is announced, the announced winner is
\* the player who made the most recent accepted move.
C6_AsClaimed ==
    Announced =>
        \/ out = "Winner is You" /\ lastMover = HUMAN
        \/ out = "Winner is AI" /\ lastMover = AI

\* C6 amended: when game over is announced after at least one accepted
\* move, the announced winner is the player who made the most recent
\* accepted move ("You" after a human move, turn then 2; "AI" after an AI
\* move, turn then 1); when it is announced with no move made (the board
\* read in was already empty), the announced winner is the opponent of the
\* player whose turn it is.
C6_LastMoverWins ==
    Announced =>
        IF moves > 0
        THEN \/ out = "Winner is You" /\ lastMover = HUMAN /\ turn = 2
             \/ out = "Winner is AI" /\ lastMover = AI /\ turn = 1
        ELSE /\ lastMover = 0
             /\ S0 = 0
             /\ out = (IF turn = HUMAN THEN "Winner is AI" ELSE "Winner is You")

C6_Witness ==
    /\ out = "Winner is You"
    /\ lastMover = HUMAN
    /\ moves >= 3

\* C7: a call of minimax on a non-terminal state, with whatever the memo
\* holds from the earlier calls of the evaluation, returns the score of the
\* memo-free recursion (the maximum of the children's scores with AI to
\* move, the minimum with HUMAN to move).
C7_MemoAgrees ==
    (last # <<>> /\ ~is_terminal(last[1].piles)) =>
        last[1].score = PlainMinimax(last[1].piles, last[1].player)

\* a call answered from the memo: a non-terminal node left without children
C7_Witness ==
    /\ last # <<>>
    /\ ~is_terminal(last[1].piles)
    /\ last[1].children = <<>>
    /\ key_of(last[1].piles, last[1].player) \in DOMAIN memo
    /\ last[1].score = PlainMinimax(last[1].piles, last[1].player)

\* C8: best_ai_move returns, among the legal moves whose child has the
\* maximum score, the one with the lowest pile index and, for that pile, the
\* smallest take.
C8_FirstBestChild ==
    pc = "apply" => mv = FirstMove(BestLegalMoves(piles))

\* two equal piles, and a best move in each of them
C8_Witness ==
    /\ pc = "apply"
    /\ \E m \in BestLegalMoves(piles) :
          /\ m[1] > mv[1]
          /\ piles[m[1] + 1] = piles[mv[1] + 1]
    /\ \E m \in BestLegalMoves(piles) : m[1] = mv[1] /\ m[2] > mv[2]

\* C9: every accepted move strictly decreases the total and keeps every
\* pile >= 0; a rejected human move changes neither piles nor turn; the
\* accepted moves never outnumber the objects removed, so there are at most
\* S0 of them; and the loop reaches the game-over announcement, the human
\* eventually entering a valid move when it is their turn.
C9_GameEnds ==
    /\ [][moves' # moves => (Total(piles') < Total(piles) /\ NonNegative(piles'))]_vars
    /\ [][out' = "Invalid move. Try again." => (piles' = piles /\ turn' = turn)]_vars
    /\ [](moves + Total(piles) <= S0)
    /\ <>(pc = "exit" /\ Announced /\ moves <= S0)

C9_Witness ==
    /\ pc = "exit"
    /\ Announced
    /\ S0 >= 4
    /\ moves = S0

\* C10: once it is the AI's turn on a board with non-zero nim-sum, the
\* board has nim-sum 0 at every later human turn, the game-over
\* announcement never names the human and, the human entering valid moves,
\* it comes and names the AI.
AiCanWin == pc = "loop" /\ turn = AI /\ NimSum(piles) # 0

HumanFacesZero == (pc = "loop" /\ turn = HUMAN) => NimSum(piles) = 0

C10_AiKeepsWin ==
    [](AiCanWin => /\ [](HumanFacesZero /\ out # "Winner is You")
                   /\ <>(out = "Winner is AI"))

C10_Witness ==
    /\ out = "Winner is AI"
    /\ lastMover = AI
    /\ moves >= 4
    /\ S0 >= 6

====
